---- MODULE Spec2Model ----
(***************************************************************************)
(* A model of the unc-token crate: the UncToken value (a u128 count of the *)
(* smallest unit), its scaled constructors and accessors, its FromStr and  *)
(* Display implementations and its checked and saturating arithmetic.      *)
(*                                                                         *)
(* TLC's integers are 32 bits wide, so a u128 (and the wider intermediate  *)
(* values the properties compare against) is held as a natural number in   *)
(* base 1000: a sequence of limbs in 0..999, least significant first,      *)
(* without high zero limbs; <<>> is zero.  Every operation on it is exact. *)
(* A text is a sequence of one-character strings.                          *)
(***************************************************************************)
EXTENDS Integers, Sequences, FiniteSets, TLC

VARIABLES pc, op, text, lhs, rhs, result

vars == <<pc, op, text, lhs, rhs, result>>

-----------------------------------------------------------------------------
(* Natural numbers wider than TLC's integers.                              *)

Base == 1000

Zero == <<>>

\* The number of a machine-sized integer n >= 0.
RECURSIVE Big(_)
Big(n) == IF n = 0 THEN <<>> ELSE <<n % Base>> \o Big(n \div Base)

\* c without its high zero limbs.
Norm(c) ==
    LET top == IF \E k \in DOMAIN c : c[k] # 0
               THEN CHOOSE k \in DOMAIN c :
                        c[k] # 0 /\ \A j \in (k + 1)..Len(c) : c[j] = 0
               ELSE 0
    IN  SubSeq(c, 1, top)

Limb(x, i) == IF i <= Len(x) THEN x[i] ELSE 0

\* One pass of carries (borrows, for negative entries) to the next limb.
CarryPass(c) ==
    SubSeq([k \in 1..(Len(c) + 1) |->
               (IF k <= Len(c) THEN c[k] % Base ELSE 0)
                   + (IF k > 1 THEN c[k - 1] \div Base ELSE 0)],
           1, Len(c) + 1)

\* The number sum of c[k] * Base^(k-1) >= 0, for integer entries c[k] that
\* need not be limbs: carries are passed on until every entry is one.
RECURSIVE Canon(_)
Canon(c) ==
    IF \A k \in DOMAIN c : c[k] >= 0 /\ c[k] < Base
    THEN Norm(c)
    ELSE Canon(CarryPass(c))

BigAdd(x, y) ==
    Canon([k \in 1..(IF Len(x) > Len(y) THEN Len(x) ELSE Len(y)) |->
              Limb(x, k) + Limb(y, k)])

BigCmp(x, y) ==
    IF Len(x) < Len(y) THEN -1
    ELSE IF Len(x) > Len(y) THEN 1
    ELSE IF x = y THEN 0
    ELSE LET k == CHOOSE i \in DOMAIN x :
                      x[i] # y[i] /\ \A j \in (i + 1)..Len(x) : x[j] = y[j]
         IN  IF x[k] < y[k] THEN -1 ELSE 1

BigLt(x, y) == BigCmp(x, y) < 0
BigLe(x, y) == BigCmp(x, y) <= 0

\* x - y for x >= y.
BigSub(x, y) == Canon([k \in 1..Len(x) |-> x[k] - Limb(y, k)])

\* x * k for a single limb k.
BigMulLimb(x, k) == Canon([i \in 1..Len(x) |-> x[i] * k])

\* x * Base^n.
BigShift(x, n) == IF x = <<>> THEN <<>> ELSE [i \in 1..n |-> 0] \o x

\* The sum of x[i] * y[k + 1 - i] over the i from lo up for which both exist.
RECURSIVE SumProducts(_, _, _, _)
SumProducts(x, y, k, i) ==
    IF i > Len(x) \/ i > k THEN 0
    ELSE x[i] * y[k + 1 - i] + SumProducts(x, y, k, i + 1)

BigMul(x, y) ==
    IF x = <<>> \/ y = <<>> THEN <<>>
    ELSE Canon([k \in 1..(Len(x) + Len(y) - 1) |->
                   SumProducts(x, y, k, IF k > Len(y) THEN k + 1 - Len(y) ELSE 1)])

\* The largest q in lo..hi with q * y <= r (there is one: lo is 0).
RECURSIVE QDigit(_, _, _, _)
QDigit(r, y, lo, hi) ==
    IF lo = hi THEN lo
    ELSE LET mid == (lo + hi + 1) \div 2
         IN  IF BigLe(BigMulLimb(y, mid), r)
             THEN QDigit(r, y, mid, hi)
             ELSE QDigit(r, y, lo, mid - 1)

\* Long division of the limbs i..1 of x by y # 0, with the remainder so far:
\* the quotient's limbs, most significant first, and the remainder.
RECURSIVE DivFrom(_, _, _, _)
DivFrom(x, y, i, r) ==
    IF i = 0 THEN [q |-> <<>>, r |-> r]
    ELSE LET cur  == Norm(<<x[i]>> \o r)
             d    == QDigit(cur, y, 0, Base - 1)
             rest == DivFrom(x, y, i - 1, BigSub(cur, BigMulLimb(y, d)))
         IN  [q |-> <<d>> \o rest.q, r |-> rest.r]

Reverse(s) == [i \in 1..Len(s) |-> s[Len(s) + 1 - i]]

\* floor(x / y) and x mod y, for y # 0.  The Len(y) - 1 high limbs of x
\* are below y: the division starts under them.
BigDivMod(x, y) ==
    IF Len(x) < Len(y) THEN [q |-> <<>>, r |-> x]
    ELSE LET res == DivFrom(x, y, Len(x) - Len(y) + 1,
                            SubSeq(x, Len(x) - Len(y) + 2, Len(x)))
         IN  [q |-> Norm(Reverse(res.q)), r |-> res.r]

BigDiv(x, y) == BigDivMod(x, y).q
BigMod(x, y) == BigDivMod(x, y).r

BigSquare(x) == BigMul(x, x)

\* 10^n: Base is 10^3.
Pow10(n) ==
    BigShift(IF n % 3 = 0 THEN <<1>> ELSE IF n % 3 = 1 THEN <<10>> ELSE <<100>>,
             n \div 3)

\* 2^64 and 2^128, by squaring 2 six and seven times.
TWO_POW_64 ==
    BigSquare(BigSquare(BigSquare(BigSquare(BigSquare(BigSquare(<<2>>))))))

\* 2^128: what a wrapped u128 result is short of the exact one.
U128_MODULUS == BigSquare(TWO_POW_64)

\* u128::MAX, 2^128 - 1.
U128_MAX == BigSub(U128_MODULUS, <<1>>)

IsU128(x) == BigLe(x, U128_MAX)

-----------------------------------------------------------------------------
(* Option and Result values.                                               *)

None == [tag |-> "None"]
Some(v) == [tag |-> "Some", value |-> v]

Ok(v) == [tag |-> "Ok", value |-> v]
Err(e) == [tag |-> "Err", err |-> e]

\* A call that ends in an uncaught fault instead of returning.
Panic == [tag |-> "Panic"]

InvalidNumber(t) == [kind |-> "InvalidNumber", text |-> t]
LongWhole(t) == [kind |-> "LongWhole", text |-> t]
LongFractional(t) == [kind |-> "LongFractional", text |-> t]

InvalidTokensAmount(e) == [kind |-> "InvalidTokensAmount", source |-> e]
InvalidTokenUnit(t) == [kind |-> "InvalidTokenUnit", text |-> t]

-----------------------------------------------------------------------------
(* Characters and texts.                                                   *)

LowerCase == <<"a", "b", "c", "d", "e", "f", "g", "h", "i", "j", "k", "l", "m",
               "n", "o", "p", "q", "r", "s", "t", "u", "v", "w", "x", "y", "z">>

UpperCase == <<"A", "B", "C", "D", "E", "F", "G", "H", "I", "J", "K", "L", "M",
               "N", "O", "P", "Q", "R", "S", "T", "U", "V", "W", "X", "Y", "Z">>

DigitChars == <<"0", "1", "2", "3", "4", "5", "6", "7", "8", "9">>

Range(f) == {f[i] : i \in DOMAIN f}

is_ascii_alphabetic(c) == c \in Range(LowerCase) \cup Range(UpperCase)

is_ascii_digit(c) == c \in Range(DigitChars)

is_whitespace(c) == c \in {" ", "\t"}

char_to_ascii_uppercase(c) ==
    IF c \in Range(LowerCase)
    THEN UpperCase[CHOOSE i \in DOMAIN LowerCase : LowerCase[i] = c]
    ELSE c

to_ascii_uppercase(s) == [i \in DOMAIN s |-> char_to_ascii_uppercase(s[i])]

RECURSIVE trim_start(_)
trim_start(s) ==
    IF s # <<>> /\ is_whitespace(Head(s)) THEN trim_start(Tail(s)) ELSE s

RECURSIVE trim_end(_)
trim_end(s) ==
    IF s # <<>> /\ is_whitespace(s[Len(s)])
    THEN trim_end(SubSeq(s, 1, Len(s) - 1))
    ELSE s

trim(s) == trim_end(trim_start(s))

\* str::find with the predicate char::is_ascii_alphabetic: the byte offset
\* (from 0) of the first letter.
find_alphabetic(s) ==
    IF \E i \in DOMAIN s : is_ascii_alphabetic(s[i])
    THEN Some((CHOOSE i \in DOMAIN s :
                  /\ is_ascii_alphabetic(s[i])
                  /\ \A j \in 1..(i - 1) : ~is_ascii_alphabetic(s[j])) - 1)
    ELSE None

\* str::split_at(mid) for mid <= len (it panics otherwise).
split_at(s, mid) == <<SubSeq(s, 1, mid), SubSeq(s, mid + 1, Len(s))>>

DigitVal(c) == (CHOOSE i \in DOMAIN DigitChars : DigitChars[i] = c) - 1

\* The number a run of decimal digits writes: three digits to a limb.
digits_value(ds) ==
    LET n == Len(ds)
        D(p) == IF p <= n THEN DigitVal(ds[n + 1 - p]) ELSE 0
    IN  Norm([k \in 1..((n + 2) \div 3) |->
                 D(3 * k - 2) + 10 * D(3 * k - 1) + 100 * D(3 * k)])

\* "{}" of a u128: its decimal digits, without leading zeros.
to_decimal(x) ==
    IF x = <<>> THEN <<"0">>
    ELSE LET n    == Len(x)
             all  == [j \in 1..(3 * n) |->
                         LET limb == x[n - ((j - 1) \div 3)]
                             pos  == (j - 1) % 3
                         IN  DigitChars[1 + (IF pos = 0 THEN limb \div 100
                                             ELSE IF pos = 1
                                             THEN (limb \div 10) % 10
                                             ELSE limb % 10)]]
             lead == IF x[n] >= 100 THEN 0 ELSE IF x[n] >= 10 THEN 1 ELSE 2
         IN  SubSeq(all, lead + 1, 3 * n)

\* "{:0w}" of a u128: its decimal digits, zero-padded on the left to w.
to_decimal_padded(x, w) ==
    LET d == to_decimal(x)
    IN  IF Len(d) >= w THEN d ELSE [i \in 1..(w - Len(d)) |-> "0"] \o d

-----------------------------------------------------------------------------
(* The integer operations of u128 the crate builds on.                     *)

\* u128::wrapping_*: the exact result modulo 2^128.
u128_wrapping_add(a, b) ==
    LET exact == BigAdd(a, b)
    IN  IF IsU128(exact) THEN exact ELSE BigSub(exact, U128_MODULUS)

u128_wrapping_sub(a, b) ==
    IF BigLe(b, a) THEN BigSub(a, b) ELSE BigSub(BigAdd(a, U128_MODULUS), b)

u128_wrapping_mul(a, b) == BigMod(BigMul(a, b), U128_MODULUS)

\* The flag of u128::overflowing_*: the exact result is outside 0..u128::MAX.
u128_add_overflows(a, b) == ~IsU128(BigAdd(a, b))

u128_sub_overflows(a, b) == BigLt(a, b)

u128_mul_overflows(a, b) == ~IsU128(BigMul(a, b))

\* u128::checked_*: None on overflow, else the (then exact) wrapped result.
u128_checked_add(a, b) ==
    IF u128_add_overflows(a, b) THEN None ELSE Some(u128_wrapping_add(a, b))

u128_checked_sub(a, b) ==
    IF u128_sub_overflows(a, b) THEN None ELSE Some(u128_wrapping_sub(a, b))

u128_checked_mul(a, b) ==
    IF u128_mul_overflows(a, b) THEN None ELSE Some(u128_wrapping_mul(a, b))

u128_saturating_add(a, b) ==
    LET checked == u128_checked_add(a, b)
    IN  IF checked.tag = "Some" THEN checked.value ELSE U128_MAX

u128_saturating_sub(a, b) ==
    LET checked == u128_checked_sub(a, b)
    IN  IF checked.tag = "Some" THEN checked.value ELSE Zero

u128_saturating_mul(a, b) ==
    LET checked == u128_checked_mul(a, b)
    IN  IF checked.tag = "Some" THEN checked.value ELSE U128_MAX

\* u128::checked_div: None for a zero divisor, else the floor quotient.
u128_checked_div(a, b) == IF b = Zero THEN None ELSE Some(BigDiv(a, b))

\* u128::saturating_div: the floor quotient (an unsigned quotient cannot
\* overflow); it panics for a zero divisor.
u128_saturating_div(a, b) == IF b = Zero THEN Panic ELSE BigDiv(a, b)

\* The a * b of a build without overflow checks: the product modulo 2^128.
\* A build with overflow checks panics instead where u128_mul_overflows.
u128_mul(a, b) == u128_wrapping_mul(a, b)

-----------------------------------------------------------------------------
(* lib.rs: the value and its arithmetic.  An UncToken is its inner count.  *)

ONE_UNC == Pow10(24)
ONE_MILLIUNC == Pow10(21)

\* Written from_yoctounc in display.rs and from_attounc in from_str.rs.
from_yoctonear(inner) == inner

\* Mutant: the milli scale instead of the base-unit scale.
from_unc_milli_scale(inner) == u128_mul(inner, ONE_MILLIUNC)

\* inner * ONE_UNC, unchecked: see FromUnc for the build that panics.
from_unc(inner) == u128_mul(inner, ONE_UNC)

\* Written from_milliunc in display.rs, which passes 1 and 999.
\* inner * ONE_MILLIUNC, unchecked: see FromMillinear.
from_millinear(inner) == u128_mul(inner, ONE_MILLIUNC)

as_near(self) == BigDiv(self, ONE_UNC)

as_millinear(self) == BigDiv(self, ONE_MILLIUNC)

\* Written as_yoctounc in display.rs.
as_yoctonear(self) == self

\* Mutant: the sum wraps around instead of being refused.
checked_add_wrapping(self, other) ==
    Some(from_yoctonear(u128_wrapping_add(as_yoctonear(self),
                                          as_yoctonear(other))))

checked_add(self, other) ==
    LET sum == u128_checked_add(as_yoctonear(self), as_yoctonear(other))
    IN  IF sum.tag = "Some" THEN Some(from_yoctonear(sum.value)) ELSE None

checked_sub(self, other) ==
    LET diff == u128_checked_sub(as_yoctonear(self), as_yoctonear(other))
    IN  IF diff.tag = "Some" THEN Some(from_yoctonear(diff.value)) ELSE None

checked_mul(self, k) ==
    LET prod == u128_checked_mul(as_yoctonear(self), k)
    IN  IF prod.tag = "Some" THEN Some(from_yoctonear(prod.value)) ELSE None

checked_div(self, k) ==
    LET unc == u128_checked_div(as_yoctonear(self), k)
    IN  IF unc.tag = "Some" THEN Some(from_yoctonear(unc.value)) ELSE None

\* Mutant: the sum wraps around instead of being clamped.
saturating_add_wrapping(self, other) ==
    from_yoctonear(u128_wrapping_add(as_yoctonear(self), as_yoctonear(other)))

saturating_add(self, other) ==
    from_yoctonear(u128_saturating_add(as_yoctonear(self), as_yoctonear(other)))

saturating_sub(self, other) ==
    from_yoctonear(u128_saturating_sub(as_yoctonear(self), as_yoctonear(other)))

saturating_mul(self, k) ==
    from_yoctonear(u128_saturating_mul(as_yoctonear(self), k))

\* Mutant: a zero divisor clamps to the maximum, as an overflow would.
saturating_div_clamping(self, k) ==
    IF k = Zero THEN from_yoctonear(U128_MAX)
    ELSE from_yoctonear(u128_saturating_div(as_yoctonear(self), k))

saturating_div(self, k) ==
    IF k = Zero THEN from_yoctonear(Zero)
    ELSE from_yoctonear(u128_saturating_div(as_yoctonear(self), k))

-----------------------------------------------------------------------------
(* utils.rs is not among the sources: the decimal parser follows the       *)
(* specification's section 4.1.                                            *)

\* The number of trailing zero digits of a scale (a power of ten).
scale_exponent(scale) ==
    LET digits == to_decimal(scale)
    IN  Cardinality({i \in DOMAIN digits :
                        \A j \in i..Len(digits) : digits[j] = "0"})

dot_count(s) == Cardinality({i \in DOMAIN s : s[i] = "."})

dot_index(s) == CHOOSE i \in DOMAIN s : s[i] = "."

\* Digits with at most one decimal point, and digits on both sides of it.
well_formed(s) ==
    /\ s # <<>>
    /\ \A i \in DOMAIN s : is_ascii_digit(s[i]) \/ s[i] = "."
    /\ dot_count(s) <= 1
    /\ dot_count(s) = 1 => dot_index(s) > 1 /\ dot_index(s) < Len(s)

whole_run(s) ==
    IF dot_count(s) = 1 THEN SubSeq(s, 1, dot_index(s) - 1) ELSE s

fractional_run(s) ==
    IF dot_count(s) = 1 THEN SubSeq(s, dot_index(s) + 1, Len(s)) ELSE <<>>

parse_decimal_number(s, scale) ==
    IF ~well_formed(s) THEN Err(InvalidNumber(s))
    ELSE LET whole == whole_run(s)
             frac  == fractional_run(s)
         IN  IF Len(frac) > scale_exponent(scale)
             THEN Err(LongFractional(frac))
             ELSE LET count ==
                          BigAdd(BigMul(digits_value(whole), scale),
                                 BigMul(digits_value(frac),
                                        BigDiv(scale, Pow10(Len(frac)))))
                  IN  IF IsU128(count) THEN Ok(count) ELSE Err(LongWhole(whole))

-----------------------------------------------------------------------------
(* trait_impls/from_str.rs                                                 *)

\* Mutant: the base-unit names get the precision of the smallest unit.
unit_precision_all_one(unit) ==
    IF unit \in {<<"Y", "N">>, <<"Y", "U", "N", "C">>,
                 <<"Y", "O", "C", "T", "O", "U", "N", "C">>,
                 <<"U", "N", "C">>, <<"N">>}
    THEN Some(<<1>>)
    ELSE None

\* The match on the unit: its precision, or None for the fall-through arm.
unit_precision(unit) ==
    IF unit \in {<<"Y", "N">>, <<"Y", "U", "N", "C">>,
                 <<"Y", "O", "C", "T", "O", "U", "N", "C">>}
    THEN Some(<<1>>)
    ELSE IF unit \in {<<"U", "N", "C">>, <<"N">>}
    THEN Some(ONE_UNC)
    ELSE None

\* The index the text is split at: that of the first letter of s itself.
split_index(s) == find_alphabetic(s)

from_str(s) ==
    LET uppercase_s == to_ascii_uppercase(trim(s))
        mid         == split_index(s)
    IN  IF mid.tag = "None" THEN Err(InvalidTokenUnit(s))
        ELSE IF mid.value > Len(uppercase_s) THEN Panic
        ELSE LET value == split_at(uppercase_s, mid.value)[1]
                 unit  == split_at(uppercase_s, mid.value)[2]
                 unit_prec == unit_precision(unit)
             IN  IF unit_prec.tag = "None" THEN Err(InvalidTokenUnit(s))
                 ELSE LET n == parse_decimal_number(trim(value), unit_prec.value)
                      IN  IF n.tag = "Err"
                          THEN Err(InvalidTokensAmount(n.err))
                          ELSE Ok(from_yoctonear(n.value))

-----------------------------------------------------------------------------
(* trait_impls/display.rs                                                  *)

UNC_LABEL == <<" ", "U", "N", "C">>

\* Mutant: the milli-units are rounded down.
millinear_rounded_down(self) == BigDiv(as_yoctonear(self), ONE_MILLIUNC)

millinear_rounded_up(self) ==
    BigDiv(u128_saturating_add(as_yoctonear(self), BigSub(ONE_MILLIUNC, <<1>>)),
           ONE_MILLIUNC)

\* Mutant: the addition wraps around instead of saturating.
near_rounded_up_wrapping(self) ==
    BigDiv(BigDiv(u128_wrapping_add(as_yoctonear(self),
                                    BigSub(BigMul(<<10>>, ONE_MILLIUNC), <<1>>)),
                  ONE_MILLIUNC),
           <<10>>)

near_rounded_up(self) ==
    BigDiv(BigDiv(u128_saturating_add(as_yoctonear(self),
                                      BigSub(BigMul(<<10>>, ONE_MILLIUNC), <<1>>)),
                  ONE_MILLIUNC),
           <<10>>)

\* Mutant: the third tier reaches up to one whole unit.
up_to_one_unc(self) == BigLe(self, from_millinear(Big(1000)))

\* The guard of the third tier.
up_to_999_milliunc(self) == BigLe(self, from_millinear(Big(999)))

fmt(self) ==
    IF self = from_yoctonear(Zero)
    THEN <<"0">> \o UNC_LABEL
    ELSE IF BigLt(self, from_millinear(<<1>>))
    THEN <<"<", "0", ".", "0", "0", "1">> \o UNC_LABEL
    ELSE IF up_to_999_milliunc(self)
    THEN <<"0", ".">> \o to_decimal_padded(millinear_rounded_up(self), 3)
             \o UNC_LABEL
    ELSE to_decimal(BigDiv(near_rounded_up(self), Big(100))) \o <<".">>
             \o to_decimal_padded(BigMod(near_rounded_up(self), Big(100)), 2)
             \o UNC_LABEL

-----------------------------------------------------------------------------
(* The calls the model makes.                                              *)

\* Leading whitespace characters put before an input text: 0..MaxLead.
MaxLead == 2
\* Every text of up to MaxLen characters over ShortAlphabet is an input.
MaxLen == 3
\* Counts are taken up to MaxDelta below and above each anchor count.
MaxDelta == 2

Rep(c, n) == [i \in 1..n |-> c]

ShortAlphabet == {"1", ".", "-", " ", "n", "x"}

ShortTexts == UNION {[1..n -> ShortAlphabet] : n \in 0..MaxLen}

\* The numeric fragments of the crate's tests.
TestFragments ==
    { <<"0", ".", "1", "2", "3", "4", "5", "6">>,
      <<"1", "1", ".", "1", "2", "3", "4", "5", "6">>,
      <<"1", "2", "3", "4", "5", "6">>,
      <<"1", ".", "1", ".", "1">>,
      <<"1", ".", " ", "0">>,
      <<"-", "1">>,
      <<".", "0", "5", "5">>,
      <<"0">>,
      <<"1", "0", "0">>,
      <<"1", "0", "0", ".", "5", "5", ".">>,
      <<"1", "0", "0", ".">> \o <<"1", "1", "1", "1", "1">>
          \o <<"2", "2", "2", "2", "2">> \o <<"3", "3", "3">> }

\* Whole runs up to and past what each scale leaves room for.
WholeRuns ==
    { <<>>, <<"7">>, <<"4", "2">>, Rep("3", 15), Rep("9", 15),
      Rep("3", 39), Rep("9", 39) }

\* Fractional runs up to and past the 24 digits of the base-unit scale.
FractionalRuns == {Rep("2", n) : n \in {0, 1, 6, 13, 24, 25}}

Fragments ==
    TestFragments \cup WholeRuns
        \cup {w \o <<".">> \o f : w \in WholeRuns, f \in FractionalRuns}

\* Unit suffixes: the recognized names in several cases, the names the
\* crate's tests use, unknown names, and none.
Suffixes ==
    { <<"Y", "N">>, <<"y", "n">>, <<"y", "N">>,
      <<"y", "u", "n", "c">>, <<"Y", "o", "c", "t", "o", "U", "n", "c">>,
      <<"U", "N", "C">>, <<"u", "n", "c">>, <<"U", "n", "c">>,
      <<"N">>, <<"n">>,
      <<"N", "e", "a", "r">>, <<"y", "n", "e", "a", "r">>,
      <<"p", "a", "s">>, <<"U", "A", "H">>, <<"x", "n">>, <<>> }

\* The fragments that are also tried with whitespace around the text.
PaddedFragments == TestFragments \cup {<<"7">>, <<"7", ".", "2">>}

Texts ==
    ShortTexts
      \cup { f \o Rep(" ", inner) \o u :
                 f \in Fragments, inner \in 0..1, u \in Suffixes }
      \cup { Rep(" ", lead) \o f \o <<" ">> \o u \o Rep("\t", trail) :
                 lead \in 0..MaxLead, f \in PaddedFragments,
                 u \in Suffixes, trail \in 0..1 }

\* Counts around an anchor, inside the u128 range.
Around(x) ==
    {BigAdd(x, Big(d)) : d \in 0..MaxDelta}
        \cup {BigSub(x, Big(d)) : d \in {e \in 0..MaxDelta : BigLe(Big(e), x)}}

\* floor(u128::MAX / 10^22) * 10^22: the last count that is a whole number
\* of hundredths of a base unit.
LastHundredth ==
    BigMul(BigDiv(U128_MAX, Pow10(22)), Pow10(22))

FmtAnchors ==
    {BigMul(Big(m), ONE_MILLIUNC) :
        m \in {0, 1, 2, 200, 999, 1000, 1234, 1500, 10000, 10500, 100000,
               100500, 100000000, 100000500}}
      \cup { LastHundredth, BigSub(U128_MAX, Pow10(22)), U128_MAX }

FmtCounts == {c \in UNION {Around(x) : x \in FmtAnchors} : IsU128(c)}

ArithAnchors ==
    { Zero, Big(10), BigDiv(U128_MAX, Big(10)), TWO_POW_64,
      BigDiv(U128_MODULUS, <<2>>), U128_MAX }

ArithCounts == {c \in UNION {Around(x) : x \in ArithAnchors} : IsU128(c)}

\* The arguments of the constructors and the counts the accessors read:
\* around the scales and around the last arguments whose product fits.
ScaleAnchors ==
    { Zero, Big(1000), ONE_MILLIUNC, ONE_UNC,
      BigDiv(U128_MAX, ONE_UNC), BigDiv(U128_MAX, ONE_MILLIUNC),
      BigMul(BigDiv(U128_MAX, ONE_UNC), ONE_UNC), U128_MAX }

ScaleCounts == {c \in UNION {Around(x) : x \in ScaleAnchors} : IsU128(c)}

Pending == [tag |-> "Pending"]

-----------------------------------------------------------------------------
(* The state machine: a call is drawn, then the operation is applied.      *)

Init ==
    /\ pc = "call"
    /\ result = Pending
    /\ \/ op = "from_str" /\ text \in Texts /\ lhs = Zero /\ rhs = Zero
       \/ op = "fmt" /\ text = <<>> /\ lhs \in FmtCounts /\ rhs = Zero
       \/ /\ op \in {"checked_add", "checked_sub", "checked_mul", "checked_div",
                    "saturating_add", "saturating_sub", "saturating_mul",
                    "saturating_div"}
          /\ text = <<>>
          /\ lhs \in ArithCounts
          /\ rhs \in ArithCounts
       \/ /\ op \in {"from_yoctonear", "from_millinear", "from_unc",
                    "as_near", "as_millinear", "as_yoctonear"}
          /\ text = <<>>
          /\ lhs \in ScaleCounts
          /\ rhs = Zero

Return(r) ==
    /\ pc' = "done"
    /\ result' = r
    /\ UNCHANGED <<op, text, lhs, rhs>>

\* What a call that gives a plain value (not an Option or a Result) leaves
\* when it returns v, as opposed to Panic.
Value(v) == [tag |-> "Value", value |-> v]

FromStr == pc = "call" /\ op = "from_str" /\ Return(from_str(text))

Fmt == pc = "call" /\ op = "fmt" /\ Return(fmt(lhs))

CheckedAdd == pc = "call" /\ op = "checked_add" /\ Return(checked_add(lhs, rhs))

CheckedSub == pc = "call" /\ op = "checked_sub" /\ Return(checked_sub(lhs, rhs))

CheckedMul == pc = "call" /\ op = "checked_mul" /\ Return(checked_mul(lhs, rhs))

CheckedDiv == pc = "call" /\ op = "checked_div" /\ Return(checked_div(lhs, rhs))

SaturatingAdd ==
    pc = "call" /\ op = "saturating_add" /\ Return(Value(saturating_add(lhs, rhs)))

SaturatingSub ==
    pc = "call" /\ op = "saturating_sub" /\ Return(Value(saturating_sub(lhs, rhs)))

SaturatingMul ==
    pc = "call" /\ op = "saturating_mul" /\ Return(Value(saturating_mul(lhs, rhs)))

SaturatingDiv ==
    pc = "call" /\ op = "saturating_div" /\ Return(Value(saturating_div(lhs, rhs)))

FromYoctonear ==
    pc = "call" /\ op = "from_yoctonear" /\ Return(Value(from_yoctonear(lhs)))

\* inner * ONE_MILLIUNC is unchecked: where the product overflows, a build
\* with overflow checks panics and a build without them keeps the product
\* modulo 2^128.
FromMillinear ==
    /\ pc = "call"
    /\ op = "from_millinear"
    /\ \/ Return(Value(from_millinear(lhs)))
       \/ u128_mul_overflows(lhs, ONE_MILLIUNC) /\ Return(Panic)

\* inner * ONE_UNC is unchecked, as in FromMillinear.
FromUnc ==
    /\ pc = "call"
    /\ op = "from_unc"
    /\ \/ Return(Value(from_unc(lhs)))
       \/ u128_mul_overflows(lhs, ONE_UNC) /\ Return(Panic)

AsNear == pc = "call" /\ op = "as_near" /\ Return(Value(as_near(lhs)))

AsMillinear == pc = "call" /\ op = "as_millinear" /\ Return(Value(as_millinear(lhs)))

AsYoctonear == pc = "call" /\ op = "as_yoctonear" /\ Return(Value(as_yoctonear(lhs)))

Next ==
    \/ FromStr \/ Fmt
    \/ CheckedAdd \/ CheckedSub \/ CheckedMul \/ CheckedDiv
    \/ SaturatingAdd \/ SaturatingSub \/ SaturatingMul \/ SaturatingDiv
    \/ FromYoctonear \/ FromMillinear \/ FromUnc
    \/ AsNear \/ AsMillinear \/ AsYoctonear

Spec == Init /\ [][Next]_vars

-----------------------------------------------------------------------------
(* What the properties say, in terms of the call and its result.           *)

Done(o) == pc = "done" /\ op = o

HasLetter(s) == \E i \in DOMAIN s : is_ascii_alphabetic(s[i])

FirstLetter(s) ==
    CHOOSE i \in DOMAIN s :
        is_ascii_alphabetic(s[i]) /\ \A j \in 1..(i - 1) : ~is_ascii_alphabetic(s[j])

\* The unit suffix of a text: from its first letter on, upper-cased.
SuffixOf(s) == to_ascii_uppercase(trim(SubSeq(s, FirstLetter(s), Len(s))))

\* The numeric fragment of a text: what is before its first letter, trimmed.
FragmentOf(s) == trim(SubSeq(s, 1, FirstLetter(s) - 1))

SmallestUnitNames ==
    { <<"Y", "N">>, <<"Y", "U", "N", "C">>,
      <<"Y", "O", "C", "T", "O", "U", "N", "C">> }

BaseUnitNames == { <<"U", "N", "C">>, <<"N">> }

RecognizedUnitNames == SmallestUnitNames \cup BaseUnitNames

\* The suffixes the crate's tests parse with: "Near" as a base unit and
\* "ynear" as a smallest unit, next to the recognized names.
TestedSmallestUnitNames == SmallestUnitNames \cup {<<"Y", "N", "E", "A", "R">>}

TestedBaseUnitNames == BaseUnitNames \cup {<<"N", "E", "A", "R">>}

IsDigitRun(s) == s # <<>> /\ \A i \in DOMAIN s : is_ascii_digit(s[i])

\* <whole digits>[.<fractional digits>]
IsDecimal(s) ==
    \/ IsDigitRun(s)
    \/ \E i \in DOMAIN s :
          /\ s[i] = "."
          /\ IsDigitRun(SubSeq(s, 1, i - 1))
          /\ IsDigitRun(SubSeq(s, i + 1, Len(s)))

WholeOf(s) ==
    IF \E i \in DOMAIN s : s[i] = "."
    THEN SubSeq(s, 1, (CHOOSE i \in DOMAIN s : s[i] = ".") - 1)
    ELSE s

FractionalOf(s) ==
    IF \E i \in DOMAIN s : s[i] = "."
    THEN SubSeq(s, (CHOOSE i \in DOMAIN s : s[i] = ".") + 1, Len(s))
    ELSE <<>>

\* whole * 10^e + fractional * 10^(e - len(fractional)), for len <= e.
ExactCount(s, e) ==
    BigAdd(BigMul(digits_value(WholeOf(s)), Pow10(e)),
           BigMul(digits_value(FractionalOf(s)), Pow10(e - Len(FractionalOf(s)))))

\* C1: for every input text, from_str returns Ok(value) or Err(error); it
\* never ends in an uncaught fault, in particular not in the split of the
\* trimmed text at the index of the first letter of the untrimmed text.
C1_FromStrNeverFaults ==
    Done("from_str") => result.tag \in {"Ok", "Err"}

\* C2: unit validation comes before numeric validation: an input with no
\* letter, or whose suffix is not a recognized unit name, gives
\* Err(InvalidTokenUnit(input)) whatever its numeric fragment is.
C2_UnitBeforeNumber ==
    (/\ Done("from_str")
     /\ ~HasLetter(text) \/ SuffixOf(text) \notin RecognizedUnitNames)
        => result = Err(InvalidTokenUnit(text))

\* C3: an input whose numeric fragment is malformed (two dots, a sign, inner
\* whitespace, no whole digits) gives
\* Err(InvalidTokensAmount(InvalidNumber(fragment))), with the suffixes the
\* claim's examples use ("Near", "unc", "ynear") as with any unit name.
\* Stated for the texts that begin with their fragment, as the examples do.
C3_MalformedIsInvalidNumber ==
    (/\ Done("from_str")
     /\ HasLetter(text)
     /\ ~is_whitespace(text[1])
     /\ SuffixOf(text) \in TestedSmallestUnitNames \cup TestedBaseUnitNames
     /\ ~IsDecimal(FragmentOf(text)))
        => result = Err(InvalidTokensAmount(InvalidNumber(FragmentOf(text))))

\* C4: an input whose numeric fragment has more fractional digits than the
\* scale permits (0 for a smallest unit, 24 for the base unit) gives
\* Err(InvalidTokensAmount(LongFractional(fractional digits))); the claim's
\* example is "100.1111122222333 ynear".  Stated for the texts that begin
\* with their fragment, as the example does.
C4_LongFractional ==
    (/\ Done("from_str")
     /\ HasLetter(text)
     /\ ~is_whitespace(text[1])
     /\ IsDecimal(FragmentOf(text))
     /\ \/ /\ SuffixOf(text) \in TestedSmallestUnitNames
           /\ Len(FractionalOf(FragmentOf(text))) > 0
        \/ /\ SuffixOf(text) \in TestedBaseUnitNames
           /\ Len(FractionalOf(FragmentOf(text))) > 24)
        => result = Err(InvalidTokensAmount(
                            LongFractional(FractionalOf(FragmentOf(text)))))

\* The texts <whole digits>[.<fractional digits>] <suffix> of C5, with a
\* recognized suffix in any letter case and digit counts the scale allows.
C5_Form(s, e) ==
    /\ HasLetter(s)
    /\ s = FragmentOf(s) \o <<" ">> \o SubSeq(s, FirstLetter(s), Len(s))
    /\ IsDecimal(FragmentOf(s))
    /\ Len(FractionalOf(FragmentOf(s))) <= e
    /\ IsU128(ExactCount(FragmentOf(s), e))

\* C5: such a text parses to exactly whole * scale + fractional *
\* (scale / 10^len(fractional)), with scale 1 for a smallest-unit suffix and
\* 10^24 for a base-unit suffix: "123456 YN" is 123456, "0.123456 unc" is
\* 123456 * 10^18 and "11.123456 unc" is 11123456 * 10^18.
C5_ParsesExactCount ==
    Done("from_str") =>
        /\ (C5_Form(text, 0) /\ SuffixOf(text) \in SmallestUnitNames)
               => result = Ok(ExactCount(FragmentOf(text), 0))
        /\ (C5_Form(text, 24) /\ SuffixOf(text) \in BaseUnitNames)
               => result = Ok(ExactCount(FragmentOf(text), 24))
        /\ text = <<"1", "2", "3", "4", "5", "6", " ", "Y", "N">>
               => result = Ok(<<456, 123>>)
        /\ text = <<"0", ".", "1", "2", "3", "4", "5", "6", " ", "u", "n", "c">>
               => result = Ok(<<0, 0, 0, 0, 0, 0, 456, 123>>)
        /\ text = <<"1", "1", ".", "1", "2", "3", "4", "5", "6", " ", "u", "n", "c">>
               => result = Ok(<<0, 0, 0, 0, 0, 0, 456, 123, 11>>)

\* C5's case: "0.123456 unc" has been parsed to 123456 * 10^18.
C5_Witness ==
    /\ Done("from_str")
    /\ text = <<"0", ".", "1", "2", "3", "4", "5", "6", " ", "u", "n", "c">>
    /\ result = Ok(BigMul(Big(123456), Pow10(18)))

\* The number the digits of a rendered text write, its point left out:
\* hundredths of a base unit for "q.rr UNC", thousandths for "0.ddd UNC".
RenderedDigits(t) == digits_value(SelectSeq(t, is_ascii_digit))

\* How many digits a rendered text has after its point.
FractionalDigits(t) ==
    IF \E i \in DOMAIN t : t[i] = "."
    THEN LET point == CHOOSE i \in DOMAIN t : t[i] = "."
         IN  Cardinality({j \in (point + 1)..Len(t) : is_ascii_digit(t[j])})
    ELSE 0

\* ceiling(c / d), exactly.
CeilDiv(c, d) == BigDiv(BigAdd(c, BigSub(d, <<1>>)), d)

Milli(m) == BigMul(Big(m), Pow10(21))

\* "<q>.<rr> UNC" for h hundredths of a base unit.
HundredthsText(h) ==
    to_decimal(BigDiv(h, Big(100))) \o <<".">>
        \o to_decimal_padded(BigMod(h, Big(100)), 2) \o <<" ", "U", "N", "C">>

\* C6: the formatter always rounds up: every count c above 999 milli-units,
\* up to u128::MAX, renders as "<q>.<rr> UNC" with 100 q + rr =
\* ceiling(c / 10^22), so that what is displayed, times 10^22, is at least c.
C6_RoundsUpToHundredths ==
    (Done("fmt") /\ BigLt(Milli(999), lhs)) =>
        /\ result = HundredthsText(CeilDiv(lhs, Pow10(22)))
        /\ BigLe(lhs, BigMul(RenderedDigits(result), Pow10(22)))

\* C7: the low tiers go by the count alone: 0 renders "0 UNC", every
\* 0 < c < 10^21 renders "<0.001 UNC", and every 10^21 <= c <= 999 * 10^21
\* renders "0.ddd UNC" with ddd = ceiling(c / 10^21), three digits, in 1..999.
C7_LowTiers ==
    Done("fmt") =>
        /\ lhs = Zero => result = <<"0", " ", "U", "N", "C">>
        /\ (lhs # Zero /\ BigLt(lhs, Pow10(21)))
               => result = <<"<", "0", ".", "0", "0", "1", " ", "U", "N", "C">>
        /\ (BigLe(Pow10(21), lhs) /\ BigLe(lhs, Milli(999)))
               => /\ Len(result) = 9
                  /\ SubSeq(result, 1, 2) = <<"0", ".">>
                  /\ SubSeq(result, 6, 9) = <<" ", "U", "N", "C">>
                  /\ FractionalDigits(result) = 3
                  /\ RenderedDigits(result) = CeilDiv(lhs, Pow10(21))
                  /\ BigLe(<<1>>, RenderedDigits(result))
                  /\ BigLe(RenderedDigits(result), Big(999))

\* C7's case: one smallest unit above a milli-unit has rendered "0.002 UNC".
C7_Witness ==
    /\ Done("fmt")
    /\ lhs = BigAdd(Pow10(21), <<1>>)
    /\ result = <<"0", ".", "0", "0", "2", " ", "U", "N", "C">>

\* C8: across the tier boundary, every count c with 999 * 10^21 < c <= 10^24
\* renders "1.00 UNC", with 2 fractional digits, and 10^24 + 1 renders
\* "1.01 UNC".
C8_TierBoundary ==
    Done("fmt") =>
        /\ (BigLt(Milli(999), lhs) /\ BigLe(lhs, Pow10(24)))
               => /\ result = <<"1", ".", "0", "0", " ", "U", "N", "C">>
                  /\ FractionalDigits(result) = 2
        /\ lhs = BigAdd(Pow10(24), <<1>>)
               => result = <<"1", ".", "0", "1", " ", "U", "N", "C">>

\* C8's case: one smallest unit above 999 milli-units has rendered "1.00 UNC".
C8_Witness ==
    /\ Done("fmt")
    /\ lhs = BigAdd(Milli(999), <<1>>)
    /\ result = <<"1", ".", "0", "0", " ", "U", "N", "C">>

\* The number a rendered text shows, in half thousandths of a base unit, so
\* that "<0.001" (1) lies between "0" (0) and "0.001" (2).
RenderedKey(t) ==
    IF t[1] = "<" THEN <<1>>
    ELSE IF FractionalDigits(t) = 0 THEN BigMul(Big(2000), RenderedDigits(t))
    ELSE IF FractionalDigits(t) = 3 THEN BigMul(<<2>>, RenderedDigits(t))
    ELSE BigMul(Big(20), RenderedDigits(t))

\* Every count of the model with the number its rendering shows.
RenderedKeys == {<<c, RenderedKey(fmt(c))>> : c \in FmtCounts}

\* C9: formatting is monotonic, inside a tier and across the tiers: a count
\* above the rendered one never renders as a smaller number.
C9_Monotonic ==
    Done("fmt") =>
        \A other \in RenderedKeys :
            BigLt(lhs, other[1]) => BigLe(RenderedKey(result), other[2])

\* C9's case: 999 milli-units have been rendered, and a larger count renders
\* as a larger number.
C9_Witness ==
    /\ Done("fmt")
    /\ lhs = Milli(999)
    /\ \E other \in RenderedKeys :
           BigLt(lhs, other[1]) /\ BigLt(RenderedKey(result), other[2])

\* C10: checked_add(a, b) is Some(a + b) if a + b <= MAX and None otherwise,
\* checked_sub(a, b) is Some(a - b) if b <= a and None otherwise, and
\* checked_mul(a, k) is Some(a * k) if a * k <= MAX and None otherwise: a
\* returned value is the exact one, never one wrapped modulo 2^128.
C10_CheckedArithmetic ==
    /\ Done("checked_add") =>
           result = IF BigLe(BigAdd(lhs, rhs), U128_MAX)
                    THEN Some(BigAdd(lhs, rhs)) ELSE None
    /\ Done("checked_sub") =>
           result = IF BigLe(rhs, lhs) THEN Some(BigSub(lhs, rhs)) ELSE None
    /\ Done("checked_mul") =>
           result = IF BigLe(BigMul(lhs, rhs), U128_MAX)
                    THEN Some(BigMul(lhs, rhs)) ELSE None

\* C10's case: a sum one above u128::MAX has been refused.
C10_Witness ==
    /\ Done("checked_add")
    /\ lhs = BigSub(U128_MAX, <<1>>)
    /\ rhs = <<2>>
    /\ result = None

\* floor(x / k) for k > 0, stated without division: the q with
\* q * k <= x < (q + 1) * k.
IsFloorQuotient(q, x, k) ==
    /\ BigLe(BigMul(q, k), x)
    /\ BigLt(x, BigMul(BigAdd(q, <<1>>), k))

\* C11: division by zero follows two policies: checked_div(x, 0) is None
\* and saturating_div(x, 0) is the zero value, neither a fault nor MAX; for
\* a divisor r # 0 both give the floor quotient, checked_div inside Some.
C11_DivisionByZeroPolicies ==
    /\ Done("checked_div") =>
           IF rhs = Zero THEN result = None
           ELSE /\ result.tag = "Some"
                /\ IsFloorQuotient(result.value, lhs, rhs)
    /\ Done("saturating_div") =>
           IF rhs = Zero THEN result = Value(Zero)
           ELSE /\ result.tag = "Value"
                /\ IsFloorQuotient(result.value, lhs, rhs)
                /\ Some(result.value) = checked_div(lhs, rhs)

\* C11's case: u128::MAX has been divided by zero with saturating_div and
\* the zero value came back.
C11_Witness ==
    /\ Done("saturating_div")
    /\ lhs = U128_MAX
    /\ rhs = Zero
    /\ result = Value(Zero)

\* min(x, u128::MAX) of an exact number x.
ClampedToMax(x) == IF BigLe(x, U128_MAX) THEN x ELSE U128_MAX

\* C12: saturating arithmetic clamps instead of failing: saturating_add(a, b)
\* is min(a + b, MAX), saturating_sub(a, b) is max(a - b, 0) and
\* saturating_mul(a, k) is min(a * k, MAX); the result is always inside
\* 0..MAX and is the value of the matching checked operation whenever that
\* one returns Some.
C12_SaturatingArithmetic ==
    /\ Done("saturating_add") =>
           /\ result = Value(ClampedToMax(BigAdd(lhs, rhs)))
           /\ IsU128(result.value)
           /\ checked_add(lhs, rhs).tag = "Some"
                  => checked_add(lhs, rhs) = Some(result.value)
    /\ Done("saturating_sub") =>
           /\ result = Value(IF BigLe(rhs, lhs) THEN BigSub(lhs, rhs) ELSE Zero)
           /\ IsU128(result.value)
           /\ checked_sub(lhs, rhs).tag = "Some"
                  => checked_sub(lhs, rhs) = Some(result.value)
    /\ Done("saturating_mul") =>
           /\ result = Value(ClampedToMax(BigMul(lhs, rhs)))
           /\ IsU128(result.value)
           /\ checked_mul(lhs, rhs).tag = "Some"
                  => checked_mul(lhs, rhs) = Some(result.value)

\* C12's case: one has been added to u128::MAX and u128::MAX came back.
C12_Witness ==
    /\ Done("saturating_add")
    /\ lhs = U128_MAX
    /\ rhs = <<1>>
    /\ result = Value(U128_MAX)

\* C13, as stated: for every n, from_unc(n) holds exactly n * 10^24 smallest
\* units and from_millinear(n) holds exactly n * 10^21, whatever n is.
C13_ExactForEveryArgument ==
    /\ Done("from_unc") => result = Value(BigMul(lhs, Pow10(24)))
    /\ Done("from_millinear") => result = Value(BigMul(lhs, Pow10(21)))

\* C13, amended: the scaled constructors convert to the equivalent
\* smallest-unit count and the accessors invert them, for every n whose
\* product fits the 128 bits: for n * 10^24 <= MAX, from_unc(n) holds exactly
\* n * 10^24, which is from_millinear(1000 * n) and from_yoctonear(n * 10^24),
\* and as_near gives n back; for n * 10^21 <= MAX, from_millinear(n) holds
\* exactly n * 10^21 and as_millinear gives n back; for every count, as_near
\* and as_millinear are the floor of the count divided by 10^24 and 10^21,
\* and from_yoctonear and as_yoctonear keep the count as it is.
C13_ScaledConstructors ==
    /\ (Done("from_unc") /\ BigLe(BigMul(lhs, Pow10(24)), U128_MAX)) =>
           /\ result = Value(BigMul(lhs, Pow10(24)))
           /\ result.value = from_millinear(BigMul(Big(1000), lhs))
           /\ result.value = from_yoctonear(BigMul(lhs, Pow10(24)))
           /\ as_near(result.value) = lhs
    /\ (Done("from_millinear") /\ BigLe(BigMul(lhs, Pow10(21)), U128_MAX)) =>
           /\ result = Value(BigMul(lhs, Pow10(21)))
           /\ as_millinear(result.value) = lhs
    /\ Done("as_near") =>
           /\ result.tag = "Value"
           /\ IsFloorQuotient(result.value, lhs, Pow10(24))
    /\ Done("as_millinear") =>
           /\ result.tag = "Value"
           /\ IsFloorQuotient(result.value, lhs, Pow10(21))
    /\ Done("from_yoctonear") =>
           /\ result = Value(lhs)
           /\ as_yoctonear(result.value) = lhs
    /\ Done("as_yoctonear") => result = Value(lhs)

\* C13's case: the largest number of base units that fits has been handed
\* to from_unc, which holds it times 10^24.
C13_Witness ==
    /\ Done("from_unc")
    /\ lhs = BigDiv(U128_MAX, Pow10(24))
    /\ lhs # Zero
    /\ result = Value(BigMul(lhs, Pow10(24)))

\* C14: surrounding whitespace does not change the result of from_str: when
\* from_str accepts a text t, it returns the same Ok(value) for t with
\* leading or trailing whitespace added, because the index of the first
\* letter, searched in the untrimmed text, splits the trimmed text at the
\* start of its unit suffix.
C14_SurroundingWhitespace ==
    (Done("from_str") /\ from_str(trim(text)).tag = "Ok") =>
        /\ split_index(text) = Some(FirstLetter(trim(text)) - 1)
        /\ result = from_str(trim(text))

====
